---- MODULE Spec2Model ----
(***************************************************************************)
(* eslint-plugin-pino-logging: the five rules (no-sensitive-data,          *)
(* no-string-concat, error-requires-err, field-naming, requires-message)   *)
(* as handlers over ESTree CallExpression nodes, and the string functions  *)
(* of the field-naming rule.                                               *)
(*                                                                         *)
(* A JavaScript string is a sequence of one-character strings.  A node is  *)
(* a record carrying the ESTree fields the parser produces for it,         *)
(* including `computed`, which the parser sets on `a[b]` and `{[k]: v}`.   *)
(***************************************************************************)
EXTENDS Integers, Sequences, FiniteSets, TLC

VARIABLES blockedFields, convention, node, rule, reports, str, fn, result

vars == <<blockedFields, convention, node, rule, reports, str, fn, result>>

(***************************************************************************)
(* Bounds                                                                  *)
(***************************************************************************)
MaxLen == 4      \* longest string given to the string functions
MaxArgs == 2     \* most arguments of a visited call
MaxProps == 2    \* most properties of an object literal argument

(***************************************************************************)
(* Characters and strings                                                  *)
(***************************************************************************)
UpperSeq ==
  <<"A","B","C","D","E","F","G","H","I","J","K","L","M",
    "N","O","P","Q","R","S","T","U","V","W","X","Y","Z">>

LowerSeq ==
  <<"a","b","c","d","e","f","g","h","i","j","k","l","m",
    "n","o","p","q","r","s","t","u","v","w","x","y","z">>

UpperChars == {UpperSeq[i] : i \in 1..26}

LowerChars == {LowerSeq[i] : i \in 1..26}

DigitChars == {"0","1","2","3","4","5","6","7","8","9"}

\* String.prototype.toLowerCase on one character
ToLowerChar(c) ==
  IF c \in UpperChars
    THEN LowerSeq[CHOOSE i \in 1..26 : UpperSeq[i] = c]
    ELSE c

\* String.prototype.toLowerCase
toLowerCase(s) == [i \in 1..Len(s) |-> ToLowerChar(s[i])]

\* a regular expression that is a literal word, tested without anchors:
\* the word occurs somewhere in s
Contains(s, w) ==
  \E i \in 0..(Len(s) - Len(w)) :
    \A j \in 1..Len(w) : s[i + j] = w[j]

\* pattern.test(s) for /word/i
TestIgnoreCase(w, s) == Contains(toLowerCase(s), toLowerCase(w))

(***************************************************************************)
(* Case Analyzer (field-naming rule)                                       *)
(***************************************************************************)
\* /^[a-z][a-z0-9_]*$/.test(s)
isSnakeCase(s) ==
  /\ Len(s) >= 1
  /\ s[1] \in LowerChars
  /\ \A i \in 2..Len(s) : s[i] \in LowerChars \cup DigitChars \cup {"_"}

\* /^[a-z][a-zA-Z0-9]*$/.test(s)
isCamelCase(s) ==
  /\ Len(s) >= 1
  /\ s[1] \in LowerChars
  /\ \A i \in 2..Len(s) : s[i] \in LowerChars \cup UpperChars \cup DigitChars

\* s.replace(/([A-Z])/g, '_$1')
RECURSIVE UnderscoreUpper(_)
UnderscoreUpper(s) ==
  IF s = <<>> THEN <<>>
  ELSE (IF Head(s) \in UpperChars THEN <<"_", Head(s)>> ELSE <<Head(s)>>)
         \o UnderscoreUpper(Tail(s))

\* a slip: the pattern is not anchored, the first underscore anywhere goes
StripLeadingUnderscore_Unanchored(s) ==
  IF \E i \in 1..Len(s) : s[i] = "_"
    THEN LET k == CHOOSE i \in 1..Len(s) : s[i] = "_" /\ \A j \in 1..(i - 1) : s[j] # "_"
         IN SubSeq(s, 1, k - 1) \o SubSeq(s, k + 1, Len(s))
    ELSE s

\* s.replace(/^_/, '')
StripLeadingUnderscore(s) ==
  IF Len(s) >= 1 /\ s[1] = "_" THEN Tail(s) ELSE s

\* a slip: the underscore is stripped only when the input began uppercase
toSnakeCase_StripOnlyAfterUpper(s) ==
  IF Len(s) >= 1 /\ s[1] \in UpperChars
    THEN Tail(toLowerCase(UnderscoreUpper(s)))
    ELSE toLowerCase(UnderscoreUpper(s))

toSnakeCase(s) ==
  StripLeadingUnderscore(toLowerCase(UnderscoreUpper(s)))

(***************************************************************************)
(* Inputs of the string functions                                          *)
(***************************************************************************)
Alphabet == {"a", "B", "_", "1", "$"}

RECURSIVE StringsOfLen(_)
StringsOfLen(n) ==
  IF n = 0 THEN {<<>>}
  ELSE {<<c>> \o s : c \in Alphabet, s \in StringsOfLen(n - 1)}

Strings == UNION {StringsOfLen(n) : n \in 0..MaxLen}

(***************************************************************************)
(* Tables of the rules                                                     *)
(***************************************************************************)
SENSITIVE_FIELD_NAMES ==
  << <<"p","a","s","s","w","o","r","d">>,
     <<"p","w","d">>,
     <<"p","a","s","s","w","d">>,
     <<"s","e","c","r","e","t">>,
     <<"a","p","i","_","k","e","y">>,
     <<"a","p","i","k","e","y">>,
     <<"t","o","k","e","n">>,
     <<"a","c","c","e","s","s","_","t","o","k","e","n">>,
     <<"r","e","f","r","e","s","h","_","t","o","k","e","n">>,
     <<"j","w","t">>,
     <<"b","e","a","r","e","r">>,
     <<"a","u","t","h">>,
     <<"a","u","t","h","o","r","i","z","a","t","i","o","n">>,
     <<"c","r","e","d","i","t","_","c","a","r","d">>,
     <<"c","a","r","d","_","n","u","m","b","e","r">>,
     <<"c","v","v">>,
     <<"s","s","n">>,
     <<"p","r","i","v","a","t","e","_","k","e","y">>,
     <<"p","r","i","v","a","t","e","k","e","y">> >>

SENSITIVE_PATTERNS ==
  << <<"p","a","s","s","w","o","r","d">>,
     <<"s","e","c","r","e","t">>,
     <<"t","o","k","e","n">>,
     <<"k","e","y">>,
     <<"a","u","t","h">>,
     <<"c","r","e","d","e","n","t","i","a","l">> >>

logMethods == <<"trace", "debug", "info", "warn", "error", "fatal">>

standardFields ==
  << <<"e","r","r">>,
     <<"e","r","r","o","r">>,
     <<"r","e","q">>,
     <<"r","e","s">>,
     <<"m","s","g">>,
     <<"t","i","m","e">>,
     <<"l","e","v","e","l">>,
     <<"p","i","d">>,
     <<"h","o","s","t","n","a","m","e">> >>

\* Array.prototype.includes
includes(arr, x) == \E i \in 1..Len(arr) : arr[i] = x

(***************************************************************************)
(* Call Classifier                                                         *)
(***************************************************************************)
isLoggerCall(n) ==
  IF n.callee.type # "MemberExpression" THEN FALSE
  ELSE IF /\ n.callee.object.type = "Identifier"
          /\ (n.callee.object.name = "logger" \/ n.callee.object.name = "log")
         THEN IF n.callee.property.type = "Identifier"
                THEN includes(logMethods, n.callee.property.name)
                ELSE FALSE
         ELSE FALSE

isLoggerErrorCall(n) ==
  IF n.callee.type # "MemberExpression" THEN FALSE
  ELSE IF /\ n.callee.object.type = "Identifier"
          /\ (n.callee.object.name = "logger" \/ n.callee.object.name = "log")
         THEN IF n.callee.property.type = "Identifier"
                THEN n.callee.property.name = "error" \/ n.callee.property.name = "fatal"
                ELSE FALSE
         ELSE FALSE

\* node.arguments[0]: the first argument, when there is one
HasFirstArg(n) == Len(n.arguments) >= 1

(***************************************************************************)
(* no-sensitive-data                                                       *)
(***************************************************************************)
\* create: the exact list extended by the configured names, lower-cased
allBlockedFields(blocked) ==
  SENSITIVE_FIELD_NAMES \o [i \in 1..Len(blocked) |-> toLowerCase(blocked[i])]

\* the loop over SENSITIVE_PATTERNS, left at the first match
MatchesSensitivePattern(keyName) ==
  \E i \in 1..Len(SENSITIVE_PATTERNS) : TestIgnoreCase(SENSITIVE_PATTERNS[i], keyName)

\* what one property of the object adds to the reports
SensitiveReportsOfProp(props, i) ==
  IF props[i].type = "Property" /\ props[i].key.type = "Identifier"
    THEN LET keyName == toLowerCase(props[i].key.name)
         IN IF includes(SENSITIVE_FIELD_NAMES, keyName)
              THEN << [node |-> i, message |-> "sensitive", name |-> props[i].key.name] >>
              ELSE IF MatchesSensitivePattern(keyName)
                     THEN << [node |-> i, message |-> "potentiallySensitive",
                              name |-> props[i].key.name] >>
                     ELSE <<>>
    ELSE <<>>

RECURSIVE SensitiveReportsFrom(_, _)
SensitiveReportsFrom(props, i) ==
  IF i > Len(props) THEN <<>>
  ELSE SensitiveReportsOfProp(props, i) \o SensitiveReportsFrom(props, i + 1)

checkObjectForSensitiveData(arg) ==
  IF arg.type # "ObjectExpression" THEN <<>>
  ELSE SensitiveReportsFrom(arg.properties, 1)

\* the CallExpression handler of no-sensitive-data
NoSensitiveDataReports(n) ==
  IF ~isLoggerCall(n) THEN <<>>
  ELSE IF HasFirstArg(n) /\ n.arguments[1].type = "ObjectExpression"
         THEN checkObjectForSensitiveData(n.arguments[1])
         ELSE <<>>

(***************************************************************************)
(* no-string-concat                                                        *)
(***************************************************************************)
ConcatReportsOfArg(args, i) ==
  (IF args[i].type = "TemplateLiteral" /\ args[i].expressions > 0
     THEN << [node |-> i, messageId |-> "noTemplateLiteral"] >>
     ELSE <<>>)
  \o
  (IF args[i].type = "BinaryExpression" /\ args[i].operator = "+"
     THEN << [node |-> i, messageId |-> "noStringConcat"] >>
     ELSE <<>>)

RECURSIVE ConcatReportsFrom(_, _)
ConcatReportsFrom(args, i) ==
  IF i > Len(args) THEN <<>>
  ELSE ConcatReportsOfArg(args, i) \o ConcatReportsFrom(args, i + 1)

\* a slip: only the first argument is inspected
NoStringConcatReports_FirstOnly(n) ==
  IF ~isLoggerCall(n) \/ Len(n.arguments) = 0 THEN <<>>
  ELSE ConcatReportsOfArg(n.arguments, 1)

\* the CallExpression handler of no-string-concat
NoStringConcatReports(n) ==
  IF ~isLoggerCall(n) THEN <<>>
  ELSE ConcatReportsFrom(n.arguments, 1)

(***************************************************************************)
(* error-requires-err                                                      *)
(***************************************************************************)
hasErrProperty(arg) ==
  IF arg.type # "ObjectExpression" THEN FALSE
  ELSE \E i \in 1..Len(arg.properties) :
         LET prop == arg.properties[i]
         IN IF prop.type = "Property" /\ prop.key.type = "Identifier"
              THEN prop.key.name = <<"e","r","r">> \/ prop.key.name = <<"e","r","r","o","r">>
              ELSE FALSE

\* the CallExpression handler of error-requires-err
ErrorRequiresErrReports(n) ==
  IF ~isLoggerErrorCall(n) THEN <<>>
  ELSE IF /\ HasFirstArg(n)
          /\ n.arguments[1].type = "Literal"
          /\ n.arguments[1].valueType = "string"
         THEN << [node |-> "call", messageId |-> "missingErrObject"] >>
  ELSE IF HasFirstArg(n) /\ n.arguments[1].type = "ObjectExpression"
         THEN IF ~hasErrProperty(n.arguments[1])
                THEN << [node |-> "call", messageId |-> "missingErrObject"] >>
                ELSE <<>>
  ELSE IF HasFirstArg(n)
         THEN <<>>
         ELSE << [node |-> "call", messageId |-> "missingErrObject"] >>

(***************************************************************************)
(* requires-message                                                        *)
(***************************************************************************)
\* a slip: an object literal first argument is reported whatever follows it
RequiresMessageReports_IgnoreLength(n) ==
  IF ~isLoggerCall(n) THEN <<>>
  ELSE IF Len(n.arguments) = 0 \/ n.arguments[1].type = "ObjectExpression"
         THEN << [node |-> "call", messageId |-> "missingMessage",
                  method |-> n.callee.property.name] >>
         ELSE <<>>

\* the CallExpression handler of requires-message
RequiresMessageReports(n) ==
  IF ~isLoggerCall(n) THEN <<>>
  ELSE LET methodName == n.callee.property.name
       IN IF Len(n.arguments) = 0
            THEN << [node |-> "call", messageId |-> "missingMessage",
                     method |-> methodName] >>
          ELSE IF Len(n.arguments) = 1
            THEN IF n.arguments[1].type = "ObjectExpression"
                   THEN << [node |-> "call", messageId |-> "missingMessage",
                            method |-> methodName] >>
                   ELSE <<>>
          ELSE <<>>

(***************************************************************************)
(* field-naming                                                            *)
(***************************************************************************)
\* options.convention || 'snake_case'
Convention(option) == IF option = "undefined" THEN "snake_case" ELSE option

checkNaming(conv, fieldName) ==
  IF conv = "snake_case" THEN isSnakeCase(fieldName)
  ELSE IF conv = "camelCase" THEN isCamelCase(fieldName)
  ELSE TRUE

\* a slip: the snake_case converter is used under every convention
getSuggestion_AlwaysSnake(conv, fieldName) == toSnakeCase(fieldName)

getSuggestion(conv, fieldName) ==
  IF conv = "snake_case" THEN toSnakeCase(fieldName) ELSE fieldName

\* a slip: the fix is offered without checking the suggestion
fix_Unchecked(conv, fieldName, suggestion) == <<suggestion>>

\* the value the fix callback returns: <<>> for null, <<text>> for
\* fixer.replaceText(prop.key, text)
fix(conv, fieldName, suggestion) ==
  IF suggestion # fieldName /\ checkNaming(conv, suggestion)
    THEN <<suggestion>>
    ELSE <<>>

NamingReportsOfProp(conv, props, i) ==
  IF props[i].type = "Property" /\ props[i].key.type = "Identifier"
    THEN LET fieldName == props[i].key.name
         IN IF includes(standardFields, fieldName) THEN <<>>
            ELSE IF ~checkNaming(conv, fieldName)
              THEN LET suggestion == getSuggestion(conv, fieldName)
                   IN << [node |-> i, messageId |-> "incorrectNaming",
                          fieldName |-> fieldName, convention |-> conv,
                          suggestion |-> suggestion,
                          fix |-> fix(conv, fieldName, suggestion)] >>
              ELSE <<>>
    ELSE <<>>

RECURSIVE NamingReportsFrom(_, _, _)
NamingReportsFrom(conv, props, i) ==
  IF i > Len(props) THEN <<>>
  ELSE NamingReportsOfProp(conv, props, i) \o NamingReportsFrom(conv, props, i + 1)

\* the CallExpression handler of field-naming
FieldNamingReports(option, n) ==
  IF ~isLoggerCall(n) THEN <<>>
  ELSE IF ~HasFirstArg(n) \/ n.arguments[1].type # "ObjectExpression" THEN <<>>
  ELSE NamingReportsFrom(Convention(option), n.arguments[1].properties, 1)

(***************************************************************************)
(* The nodes the parser hands to the handlers                              *)
(***************************************************************************)
NoKey == [type |-> "none", name |-> <<>>]

\* { name: v }
PlainProp(name) ==
  [type |-> "Property", key |-> [type |-> "Identifier", name |-> name], computed |-> FALSE]

\* { [name]: v }: the key is the expression `name`, an Identifier node
ComputedIdentifierProp(name) ==
  [type |-> "Property", key |-> [type |-> "Identifier", name |-> name], computed |-> TRUE]

\* { 'text': v } and { ['a' + b]: v }: the key is not an Identifier node
OtherKeyProp(keyType, isComputed) ==
  [type |-> "Property", key |-> [type |-> keyType, name |-> <<>>], computed |-> isComputed]

\* { ...rest }
SpreadProp == [type |-> "SpreadElement", key |-> NoKey, computed |-> FALSE]

KeyNames ==
  { <<"p","a","s","s","w","o","r","d">>,
    <<"P","a","s","s","w","o","r","d">>,
    <<"p","a","s","s","w","o","r","d","H","a","s","h">>,
    <<"e","m","a","i","l">>,
    <<"u","s","e","r","I","d">>,
    <<"u","s","e","r","_","i","d">>,
    <<"e","r","r">>,
    <<"a","$","B">>,
    <<"_","i","d">> }

ComputedKeyNames ==
  { <<"p","a","s","s","w","o","r","d">>,
    <<"u","s","e","r","I","d">>,
    <<"e","r","r">> }

Props ==
  {PlainProp(k) : k \in KeyNames}
    \cup {ComputedIdentifierProp(k) : k \in ComputedKeyNames}
    \cup {OtherKeyProp("Literal", FALSE), OtherKeyProp("BinaryExpression", TRUE), SpreadProp}

RECURSIVE SeqsUpTo(_, _)
SeqsUpTo(S, n) ==
  IF n = 0 THEN {<<>>}
  ELSE SeqsUpTo(S, n - 1)
         \cup {Append(q, x) : q \in {r \in SeqsUpTo(S, n - 1) : Len(r) = n - 1}, x \in S}

Arg(type, valueType, properties, expressions, operator) ==
  [type |-> type, valueType |-> valueType, properties |-> properties,
   expressions |-> expressions, operator |-> operator]

ObjectArg(properties) == Arg("ObjectExpression", "none", properties, 0, "none")

StringArg == Arg("Literal", "string", <<>>, 0, "none")

NumberArg == Arg("Literal", "number", <<>>, 0, "none")

TemplateArg(expressions) == Arg("TemplateLiteral", "none", <<>>, expressions, "none")

BinaryArg(operator) == Arg("BinaryExpression", "none", <<>>, 0, operator)

IdentifierArg == Arg("Identifier", "none", <<>>, 0, "none")

ShapeArgs ==
  {StringArg, NumberArg, TemplateArg(0), TemplateArg(1), BinaryArg("+"), BinaryArg("-"),
   IdentifierArg}

ObjectArgs == {ObjectArg(ps) : ps \in SeqsUpTo(Props, MaxProps)}

\* { password: p, userId: u }
SensitiveObjectArg ==
  ObjectArg(<<PlainProp(<<"p","a","s","s","w","o","r","d">>),
              PlainProp(<<"u","s","e","r","I","d">>)>>)

\* arguments after the first
RestArgs == {StringArg, TemplateArg(1), BinaryArg("+"), SensitiveObjectArg}

\* every object literal alone or followed by messages; every other shape of
\* first argument, and one object literal, followed by every list of later
\* arguments
ArgLists ==
  {<<>>}
    \cup {<<a>> \o r : a \in ObjectArgs, r \in SeqsUpTo({StringArg}, MaxArgs - 1)}
    \cup {<<a>> \o r : a \in ShapeArgs \cup {SensitiveObjectArg},
                       r \in SeqsUpTo(RestArgs, MaxArgs - 1)}

\* argument lists that make every rule report when the call qualifies
FewArgLists ==
  { <<>>,
    <<StringArg>>,
    <<SensitiveObjectArg>>,
    <<TemplateArg(1), BinaryArg("+")>> }

Callee(type, objectType, objectName, propertyType, propertyName, isComputed) ==
  [type |-> type,
   object |-> [type |-> objectType, name |-> objectName],
   property |-> [type |-> propertyType, name |-> propertyName],
   computed |-> isComputed]

\* f(...): the callee is no member expression
FunctionCallee == Callee("Identifier", "none", "none", "none", "none", FALSE)

CalleeObjects ==
  {<<"Identifier", nm>> : nm \in {"logger", "log", "Logger", "console"}}
    \cup {<<"ThisExpression", "none">>, <<"MemberExpression", "none">>}

CalleeProperties ==
  {<<"Identifier", nm, c>> :
     nm \in {"trace", "debug", "info", "warn", "error", "fatal", "child", "Info"},
     c \in BOOLEAN}
    \cup {<<"Literal", "none", TRUE>>}

AllCallees ==
  {Callee("MemberExpression", o[1], o[2], q[1], q[2], q[3]) :
     o \in CalleeObjects, q \in CalleeProperties}
    \cup {FunctionCallee}

LoggerInfo == Callee("MemberExpression", "Identifier", "logger", "Identifier", "info", FALSE)

FewCallees ==
  {LoggerInfo,
   Callee("MemberExpression", "Identifier", "log", "Identifier", "error", FALSE)}

\* the strings that are identifier names
IdentifierNames == {s \in Strings : Len(s) >= 1 /\ s[1] \notin DigitChars}

Nodes ==
  {[callee |-> c, arguments |-> a] : c \in FewCallees, a \in ArgLists}
    \cup {[callee |-> c, arguments |-> a] : c \in AllCallees, a \in FewArgLists}
    \cup {[callee |-> LoggerInfo, arguments |-> <<ObjectArg(<<PlainProp(k)>>), StringArg>>] :
            k \in IdentifierNames}

\* context.options[0].blockedFields of no-sensitive-data
BlockedFieldsOptions == {<<>>, << <<"E","m","a","i","l">> >>}

\* context.options[0].convention of field-naming
ConventionOptions == {"undefined", "snake_case", "camelCase"}

NoNode == [callee |-> FunctionCallee, arguments |-> <<>>]

(***************************************************************************)
(* The rules run on a node                                                 *)
(***************************************************************************)
Init ==
  /\ blockedFields = <<>>
  /\ convention = "undefined"
  /\ node \in Nodes
  /\ rule = "none"
  /\ reports = <<>>
  /\ str = <<>>
  /\ fn = "none"
  /\ result = <<>>

\* a rule is created with its options and its handler is given the node
Run(name, out) ==
  /\ rule = "none"
  /\ rule' = name
  /\ reports' = out
  /\ UNCHANGED <<node, str, fn, result>>

NoSensitiveData ==
  \E blocked \in BlockedFieldsOptions :
    /\ blockedFields' = blocked
    /\ Run("no-sensitive-data", NoSensitiveDataReports(node))
    /\ UNCHANGED convention

NoStringConcat ==
  /\ Run("no-string-concat", NoStringConcatReports(node))
  /\ UNCHANGED <<blockedFields, convention>>

ErrorRequiresErr ==
  /\ Run("error-requires-err", ErrorRequiresErrReports(node))
  /\ UNCHANGED <<blockedFields, convention>>

FieldNaming ==
  \E option \in ConventionOptions :
    /\ convention' = option
    /\ Run("field-naming", FieldNamingReports(option, node))
    /\ UNCHANGED blockedFields

RequiresMessage ==
  /\ Run("requires-message", RequiresMessageReports(node))
  /\ UNCHANGED <<blockedFields, convention>>

Next ==
  \/ NoSensitiveData
  \/ NoStringConcat
  \/ ErrorRequiresErr
  \/ FieldNaming
  \/ RequiresMessage

Spec == Init /\ [][Next]_vars

(***************************************************************************)
(* The string functions applied to a string                                *)
(***************************************************************************)
InitCase ==
  /\ blockedFields = <<>>
  /\ convention = "undefined"
  /\ node = NoNode
  /\ rule = "none"
  /\ reports = <<>>
  /\ str \in Strings
  /\ fn = "none"
  /\ result = <<>>

Apply(name, out) ==
  /\ fn = "none"
  /\ fn' = name
  /\ result' = out
  /\ UNCHANGED <<blockedFields, convention, node, rule, reports, str>>

ToSnakeCase == Apply("toSnakeCase", toSnakeCase(str))

IsSnakeCase == Apply("isSnakeCase", isSnakeCase(str))

IsCamelCase == Apply("isCamelCase", isCamelCase(str))

NextCase ==
  \/ ToSnakeCase
  \/ IsSnakeCase
  \/ IsCamelCase

SpecCase == InitCase /\ [][NextCase]_vars

(***************************************************************************)
(* The words of the specification                                          *)
(***************************************************************************)
\* a key written as a bare name, { name: v }: not computed, not a literal
PlainIdentifierKey(prop) ==
  prop.type = "Property" /\ ~prop.computed /\ prop.key.type = "Identifier"

\* base.method(...) with base `logger` or `log` and method one of the six
\* levels, the method written as a bare name
Qualifies(n) ==
  /\ n.callee.type = "MemberExpression"
  /\ n.callee.object.type = "Identifier"
  /\ n.callee.object.name \in {"logger", "log"}
  /\ ~n.callee.computed
  /\ n.callee.property.type = "Identifier"
  /\ n.callee.property.name \in {"trace", "debug", "info", "warn", "error", "fatal"}

FirstArgIsObject(n) == Len(n.arguments) >= 1 /\ n.arguments[1].type = "ObjectExpression"

FirstProps(n) == IF FirstArgIsObject(n) THEN n.arguments[1].properties ELSE <<>>

\* the number of reports anchored at index i
CountAt(i) == Cardinality({j \in DOMAIN reports : reports[j].node = i})

ReportedAs(i, message) ==
  \E j \in DOMAIN reports : reports[j].node = i /\ reports[j].message = message

(***************************************************************************)
(* Security Checker                                                        *)
(***************************************************************************)
\* the name, lower-cased, equals the lower-cased form of a configured entry
IsConfiguredBlocked(name) ==
  \E b \in 1..Len(blockedFields) : toLowerCase(name) = toLowerCase(blockedFields[b])

\* C1: after no-sensitive-data ran on a call the classifier accepts whose first argument
\* is an object literal, every plain-identifier key whose lower-cased name
\* equals the lower-cased form of a blockedFields entry is reported with the
\* hard violation.
C1_BlockedFieldsReportedHard ==
  (rule = "no-sensitive-data" /\ isLoggerCall(node) /\ FirstArgIsObject(node)) =>
    \A i \in 1..Len(FirstProps(node)) :
      (PlainIdentifierKey(FirstProps(node)[i])
         /\ IsConfiguredBlocked(FirstProps(node)[i].key.name))
        => ReportedAs(i, "sensitive")

\* C2: after no-sensitive-data ran, every plain-identifier key of the first
\* argument object of an accepted call has at most one report: the hard one
\* iff its lower-cased name is in the exact list, otherwise the soft one iff
\* it matches a heuristic pattern, otherwise none; computed keys, other first
\* arguments and later arguments are not reported.
C2_OneViolationPerKey ==
  rule = "no-sensitive-data" =>
    IF isLoggerCall(node) /\ FirstArgIsObject(node)
      THEN /\ \A j \in DOMAIN reports : reports[j].node \in 1..Len(FirstProps(node))
           /\ \A i \in 1..Len(FirstProps(node)) :
                LET prop == FirstProps(node)[i]
                    keyName == toLowerCase(prop.key.name)
                    inExact == includes(allBlockedFields(blockedFields), keyName)
                IN IF PlainIdentifierKey(prop)
                     THEN /\ CountAt(i) <= 1
                          /\ ReportedAs(i, "sensitive") <=> inExact
                          /\ ReportedAs(i, "potentiallySensitive")
                               <=> (~inExact /\ MatchesSensitivePattern(keyName))
                     ELSE CountAt(i) = 0
      ELSE reports = <<>>

(***************************************************************************)
(* Call Classifier                                                         *)
(***************************************************************************)
\* C3: the classifier accepts a call iff it qualifies (member expression,
\* base a bare identifier `logger` or `log`, property a plain identifier
\* naming one of the six levels), and no rule reports on a call that does
\* not qualify.
C3_ClassifierAcceptsExactlyQualifying ==
  rule # "none" =>
    /\ isLoggerCall(node) <=> Qualifies(node)
    /\ ~Qualifies(node) => reports = <<>>

(***************************************************************************)
(* Error-Object Checker                                                    *)
(***************************************************************************)
HasPlainErrKey(n) ==
  \E i \in 1..Len(FirstProps(n)) :
    /\ PlainIdentifierKey(FirstProps(n)[i])
    /\ FirstProps(n)[i].key.name \in {<<"e","r","r">>, <<"e","r","r","o","r">>}

\* C4: error-requires-err reports exactly once when the call is accepted by
\* the classifier with method `error` or `fatal` and has no arguments, or a string literal first
\* argument, or an object literal first argument without a plain-identifier
\* key `err` or `error`; otherwise it reports nothing.
C4_ErrorCallNeedsErrKey ==
  rule = "error-requires-err" =>
    LET violates ==
          /\ isLoggerCall(node)
          /\ node.callee.property.name \in {"error", "fatal"}
          /\ \/ Len(node.arguments) = 0
             \/ (node.arguments[1].type = "Literal"
                   /\ node.arguments[1].valueType = "string")
             \/ (FirstArgIsObject(node) /\ ~HasPlainErrKey(node))
    IN Len(reports) = (IF violates THEN 1 ELSE 0)

(***************************************************************************)
(* Message-Presence Checker                                                *)
(***************************************************************************)
\* C5: requires-message reports exactly once on an accepted call with no
\* arguments or with a single argument that is an object literal, and not at
\* all on any other accepted call (one string literal, one argument of
\* another shape, two or more arguments).
C5_MessageRequired ==
  (rule = "requires-message" /\ isLoggerCall(node)) =>
    /\ Len(reports) =
         (IF \/ Len(node.arguments) = 0
             \/ (Len(node.arguments) = 1 /\ node.arguments[1].type = "ObjectExpression")
            THEN 1 ELSE 0)
    /\ \A j \in DOMAIN reports : reports[j].messageId = "missingMessage"

\* a lone object literal was reported
C5_Witness ==
  /\ rule = "requires-message"
  /\ isLoggerCall(node)
  /\ Len(node.arguments) = 1
  /\ node.arguments[1].type = "ObjectExpression"
  /\ Len(reports) = 1

(***************************************************************************)
(* Structured-Logging Checker                                              *)
(***************************************************************************)
IsInterpolatedTemplate(a) == a.type = "TemplateLiteral" /\ a.expressions >= 1

IsPlusExpression(a) == a.type = "BinaryExpression" /\ a.operator = "+"

OffendingArgs(n) ==
  {i \in 1..Len(n.arguments) :
     IsInterpolatedTemplate(n.arguments[i]) \/ IsPlusExpression(n.arguments[i])}

ExemptKeys ==
  { <<"e","r","r">>, <<"e","r","r","o","r">>, <<"r","e","q">>, <<"r","e","s">>,
    <<"m","s","g">>, <<"t","i","m","e">>, <<"l","e","v","e","l">>, <<"p","i","d">>,
    <<"h","o","s","t","n","a","m","e">> }

\* the configured convention's check
Passes(option, s) ==
  IF option = "camelCase" THEN isCamelCase(s) ELSE isSnakeCase(s)

\* C7: field-naming reports, on an accepted call with an object literal first
\* argument, exactly once at every plain-identifier key that is not exempt
\* and fails the configured convention's check, with suggestion
\* toSnakeCase(key) under snake_case, and never at a key that passes, an
\* exempt key or a computed key.
C7_OneReportPerMisnamedKey ==
  (rule = "field-naming" /\ isLoggerCall(node) /\ FirstArgIsObject(node)) =>
    \A i \in 1..Len(FirstProps(node)) :
      LET prop == FirstProps(node)[i]
      IN IF PlainIdentifierKey(prop)
           THEN /\ CountAt(i) =
                     (IF prop.key.name \notin ExemptKeys /\ ~Passes(convention, prop.key.name)
                        THEN 1 ELSE 0)
                /\ \A j \in DOMAIN reports :
                     (reports[j].node = i /\ convention # "camelCase") =>
                       reports[j].suggestion = toSnakeCase(prop.key.name)
           ELSE CountAt(i) = 0

\* C8: a field-naming report carries a replacement only when the replacement
\* differs from the original key and passes the configured convention's
\* check; when the suggestion equals the key or fails the check, the fix
\* yields nothing.
C8_FixOnlyWhenValid ==
  rule = "field-naming" =>
    \A j \in DOMAIN reports :
      LET r == reports[j]
      IN /\ (r.suggestion = r.fieldName \/ ~Passes(convention, r.suggestion)) => r.fix = <<>>
         /\ r.fix # <<>> =>
              /\ r.fix = <<r.suggestion>>
              /\ r.fix[1] # r.fieldName
              /\ Passes(convention, r.fix[1])

\* one key was given a replacement and another, whose suggestion differs from
\* it but fails the check, was given none
C8_Witness ==
  /\ rule = "field-naming"
  /\ \E j \in DOMAIN reports : reports[j].fix # <<>>
  /\ \E j \in DOMAIN reports :
       /\ reports[j].fix = <<>>
       /\ reports[j].suggestion # reports[j].fieldName
       /\ ~Passes(convention, reports[j].suggestion)

\* C10: under convention camelCase every field-naming report suggests the
\* original key and its fix yields no replacement.
C10_CamelCaseFixInert ==
  (rule = "field-naming" /\ convention = "camelCase") =>
    \A j \in DOMAIN reports :
      /\ reports[j].suggestion = reports[j].fieldName
      /\ reports[j].fix = <<>>

\* under camelCase a key was reported whose snake_case form differs from it
C10_Witness ==
  /\ rule = "field-naming"
  /\ convention = "camelCase"
  /\ \E j \in DOMAIN reports : toSnakeCase(reports[j].fieldName) # reports[j].fieldName

(***************************************************************************)
(* Case Analyzer                                                           *)
(***************************************************************************)
BeginsUpper(s) == Len(s) >= 1 /\ s[1] \in UpperChars

BeginsUnderscore(s) == Len(s) >= 1 /\ s[1] = "_"

\* C9, as stated: toSnakeCase(s) is s with an underscore put before every
\* uppercase letter, lower-cased, and one leading underscore removed only if
\* s began with an uppercase letter.
C9_StripsOnlyAfterUppercase ==
  fn = "toSnakeCase" =>
    result = (IF BeginsUpper(str)
                THEN Tail(toLowerCase(UnderscoreUpper(str)))
                ELSE toLowerCase(UnderscoreUpper(str)))

\* C9, amended: toSnakeCase(s) is s with an underscore put before every
\* uppercase letter, lower-cased, and one leading underscore removed when s
\* began with an uppercase letter or with an underscore.
C9_StripsLeadingUnderscore ==
  fn = "toSnakeCase" =>
    result = (IF BeginsUpper(str) \/ BeginsUnderscore(str)
                THEN Tail(toLowerCase(UnderscoreUpper(str)))
                ELSE toLowerCase(UnderscoreUpper(str)))

\* a string that began with an underscore lost it
C9_Witness ==
  /\ fn = "toSnakeCase"
  /\ BeginsUnderscore(str)
  /\ Len(str) >= 2
  /\ str[2] \notin UpperChars
  /\ result = Tail(str)

\* C11: toSnakeCase is the identity on the strings that pass isSnakeCase (a
\* lowercase letter followed by lowercase letters, digits or underscores).
C11_SnakeCaseUnchanged ==
  (fn = "toSnakeCase" /\ isSnakeCase(str)) => result = str

\* a snake_case string with an underscore in it came back unchanged
C11_Witness ==
  /\ fn = "toSnakeCase"
  /\ isSnakeCase(str)
  /\ \E i \in 1..Len(str) : str[i] = "_"
  /\ result = str

====
